---- MODULE Spec2Model ----
(***************************************************************************)
(* Model of bot_real_time.py: the Telegram handler search_products and the *)
(* three marketplace extractors parse_wildberries, parse_ozon and          *)
(* parse_yandex_market that it runs under asyncio.gather against one       *)
(* shared Playwright page.                                                 *)
(*                                                                         *)
(* Text is a sequence of one-character strings.  Characters outside ASCII  *)
(* are written by name: "nbsp" (U+00A0), "thin" (U+2009), "rub" (U+20BD),  *)
(* "acirc" (U+00E2), "x80" (U+0080), "x82" (U+0082), "x89" (U+0089).       *)
(*                                                                         *)
(* Every await of the code is one step of the model.  A browser operation  *)
(* takes effect at the moment it completes and resumes its task, so the    *)
(* steps of the three extractor tasks interleave freely while the handler  *)
(* is suspended in gather.                                                 *)
(*                                                                         *)
(* Calls that may raise in the model: launch, new_page, goto,              *)
(* wait_for_selector, query_selector_all, query_selector_eval, float, and  *)
(* the cancellation of the handler while it waits in gather.  The replies  *)
(* and browser.close() are taken to complete.                              *)
(***************************************************************************)
EXTENDS Integers, Sequences, FiniteSets, TLC

\* ------------------------------------------------------------ text helpers

\* str.strip() and float() drop these at both ends of a text.
Whitespace == {" ", "nbsp", "thin"}

Digits == {"0", "1", "2", "3", "4", "5", "6", "7", "8", "9"}

DigitVal(c) ==
  CASE c = "0" -> 0 [] c = "1" -> 1 [] c = "2" -> 2 [] c = "3" -> 3
    [] c = "4" -> 4 [] c = "5" -> 5 [] c = "6" -> 6 [] c = "7" -> 7
    [] c = "8" -> 8 [] c = "9" -> 9

RECURSIVE LStrip(_)
LStrip(s) ==
  IF s # <<>> /\ Head(s) \in Whitespace THEN LStrip(Tail(s)) ELSE s

RECURSIVE RStrip(_)
RStrip(s) ==
  IF s # <<>> /\ s[Len(s)] \in Whitespace
  THEN RStrip(SubSeq(s, 1, Len(s) - 1))
  ELSE s

\* str.strip()
Strip(s) == RStrip(LStrip(s))

StartsWith(s, pat) ==
  Len(pat) <= Len(s) /\ SubSeq(s, 1, Len(pat)) = pat

\* str.replace(pat, rep), pat non-empty: leftmost non-overlapping occurrences.
RECURSIVE Replace(_, _, _)
Replace(s, pat, rep) ==
  IF s = <<>> THEN <<>>
  ELSE IF StartsWith(s, pat)
       THEN rep \o Replace(SubSeq(s, Len(pat) + 1, Len(s)), pat, rep)
       ELSE <<Head(s)>> \o Replace(Tail(s), pat, rep)

\* ''.join(filter(str.isdigit, s))
OnlyDigits(s) == SelectSeq(s, LAMBDA c : c \in Digits)

AllDigits(s) == \A i \in 1..Len(s) : s[i] \in Digits

RECURSIVE DigitsValue(_)
DigitsValue(s) ==
  IF s = <<>> THEN 0
  ELSE 10 * DigitsValue(SubSeq(s, 1, Len(s) - 1)) + DigitVal(s[Len(s)])

\* A float is sign * mant / 10^exp, kept without trailing fraction zeros so
\* that equal numbers are equal records.
RECURSIVE Normalised(_)
Normalised(f) ==
  IF f.exp > 0 /\ f.mant % 10 = 0
  THEN Normalised([f EXCEPT !.mant = f.mant \div 10, !.exp = f.exp - 1])
  ELSE f

ValueError == [ok |-> FALSE]

\* Position of the first "." of s, 0 when there is none.
DotAt(s) ==
  IF \E i \in 1..Len(s) : s[i] = "."
  THEN CHOOSE i \in 1..Len(s) : s[i] = "." /\ \A j \in 1..(i - 1) : s[j] # "."
  ELSE 0

\* float(s) on unsigned decimal text: digits, digits. , digits.digits , .digits
UnsignedFloat(s, neg) ==
  LET d == DotAt(s)
      ip == IF d = 0 THEN s ELSE SubSeq(s, 1, d - 1)
      fp == IF d = 0 THEN <<>> ELSE SubSeq(s, d + 1, Len(s))
  IN IF AllDigits(ip) /\ AllDigits(fp) /\ Len(ip) + Len(fp) > 0
     THEN Normalised([ok |-> TRUE, neg |-> neg,
                      mant |-> DigitsValue(ip \o fp), exp |-> Len(fp)])
     ELSE ValueError

FloatOrZero(s) ==
  LET t == Strip(s)
  IN IF t = <<>> THEN [ok |-> TRUE, neg |-> FALSE, mant |-> 0, exp |-> 0]
     ELSE IF Head(t) = "-" THEN UnsignedFloat(Tail(t), TRUE)
     ELSE IF Head(t) = "+" THEN UnsignedFloat(Tail(t), FALSE)
     ELSE UnsignedFloat(t, FALSE)

\* float(s) for text without letters or underscores: surrounding whitespace is
\* dropped, one sign is allowed, anything else raises ValueError.
Float(s) ==
  LET t == Strip(s)
  IN IF t = <<>> THEN ValueError
     ELSE IF Head(t) = "-" THEN UnsignedFloat(Tail(t), TRUE)
     ELSE IF Head(t) = "+" THEN UnsignedFloat(Tail(t), FALSE)
     ELSE UnsignedFloat(t, FALSE)

\* The two mis-decoded texts lines 26 and 55 delete.
ThinSpaceArtifact == <<"acirc", "x80", "x89">>
RubleArtifact == <<"acirc", "x82">>

\* Lines 26 and 55: the chain of replace calls, strip, float.
DecimalPrice(raw) ==
  Float(Strip(Replace(Replace(Replace(Replace(raw,
          ThinSpaceArtifact, <<>>), RubleArtifact, <<>>),
          <<" ">>, <<>>), <<",">>, <<".">>)))

\* Line 84: float of the digits of the text.
DigitsOnlyPrice(raw) == Float(OnlyDigits(raw))


\* ------------------------------------------------------------- the sources

WB == "WB"
OZ == "OZ"
YM == "YM"

\* The order of the tasks list, lines 114-118.
SourceOrder == <<WB, OZ, YM>>

Sources == {SourceOrder[i] : i \in 1..Len(SourceOrder)}

\* The 'marketplace' value each extractor writes, lines 31, 60, 89.
Marketplace(s) ==
  CASE s = WB -> "Wildberries" [] s = OZ -> "Ozon" [] s = YM -> "Yandex.Market"

\* Lines 16, 45, 74: the f-string puts the query into the URL as it is.
SearchUrl(s, q) ==
  CASE s = WB -> <<"https://www.wildberries.ru/catalog/0/search.aspx?search=">> \o q
    [] s = OZ -> <<"https://www.ozon.ru/search/?text=">> \o q
    [] s = YM -> <<"https://market.yandex.ru/search?text=">> \o q

\* Lines 22, 51, 80: cards[:5].
MaxItems == 5

LoopCountUncapped(n) == n

\* Number of cards the for loop visits, len(cards[:5]).
LoopCount(n) == IF n < MaxItems THEN n ELSE MaxItems

\* ------------------------------------------------------- the scraped pages

\* What query_selector_eval finds: the text, or no element for the selector
\* (the call raises).
Found(t) == [found |-> TRUE, text |-> t]
Missing == [found |-> FALSE]

Card(t, p, h, i) == [title |-> t, price |-> p, href |-> h, image |-> i]

GoodCard == Card(Found(<<" ", "T", " ">>), Found(<<"7", ",", "5">>),
                 Found(<<"h">>), Found(<<"i">>))
OtherCard == Card(Found(<<"O">>), Found(<<"9">>), Found(<<"g">>), Found(<<>>))
NoPriceCard == Card(Found(<<"T">>), Missing, Found(<<"h">>), Found(<<"i">>))
NegativeCard == Card(Found(<<"T">>), Found(<<"-", "5">>),
                     Found(<<"h">>), Found(<<"i">>))
BlankCard == Card(Found(<<" ">>), Found(<<"-", "5">>), Found(<<>>), Found(<<>>))

NoCards == [s \in Sources |-> <<>>]

\* A page set gives, for the search page of each source, the elements that the
\* result selector of each extractor matches there, in document order.
EmptyPages == [u \in Sources |-> NoCards]

\* Pages with results of every kind: a card without a price between two good
\* ones, a negative price, a blank title with an empty link, and a page of
\* another source that the Wildberries selector matches too.
MixedPages ==
  [EmptyPages EXCEPT
     ![WB] = [NoCards EXCEPT ![WB] = <<GoodCard, NoPriceCard, GoodCard>>],
     ![OZ] = [NoCards EXCEPT ![OZ] = <<NegativeCard>>, ![WB] = <<OtherCard>>],
     ![YM] = [NoCards EXCEPT ![YM] = <<BlankCard>>]]

PageSets == {EmptyPages, MixedPages}

\* Number of result elements on the long page.
ManyCards == 6

\* A Wildberries page with more result elements than the loop takes; the
\* other two searches find nothing.
LongPages ==
  [EmptyPages EXCEPT
     ![WB] = [NoCards EXCEPT ![WB] = [i \in 1..ManyCards |-> GoodCard]]]

\* The price texts of a Wildberries or Ozon card and of a Yandex.Market card:
\* digit groups, a comma before the fraction, the ruble sign U+20BD at the end.
DecimalSample == <<"1", " ", "2", "3", "4", ",", "5", "6", " ", "rub">>
DigitsOnlySample == <<"1", "2", " ", "9", "9", "0", " ", "rub">>

RublePriceCard == Card(Found(<<"T">>), Found(DecimalSample),
                       Found(<<"h">>), Found(<<"i">>))
MarketPriceCard == Card(Found(<<"M">>), Found(DigitsOnlySample),
                        Found(<<"h">>), Found(<<"i">>))
\* A card without an img element.
NoImageCard == Card(Found(<<"N">>), Found(<<"9">>), Found(<<"h">>), Missing)
\* Cards whose price text holds no number: blank, and the ruble sign alone.
SpacePriceCard == Card(Found(<<"S">>), Found(<<" ">>),
                       Found(<<"h">>), Found(<<"i">>))
NoDigitsCard == Card(Found(<<"D">>), Found(<<"rub">>),
                     Found(<<"h">>), Found(<<"i">>))

\* Pages for the price and image cases: each source serves two cards to its
\* own selector; OtherCard has an img element with an empty src.
DetailPages ==
  [EmptyPages EXCEPT
     ![WB] = [NoCards EXCEPT ![WB] = <<RublePriceCard, NoImageCard>>],
     ![OZ] = [NoCards EXCEPT ![OZ] = <<SpacePriceCard, OtherCard>>],
     ![YM] = [NoCards EXCEPT ![YM] = <<MarketPriceCard, NoDigitsCard>>]]

\* One Wildberries card; the other two searches find nothing.
SinglePages ==
  [EmptyPages EXCEPT ![WB] = [NoCards EXCEPT ![WB] = <<GoodCard>>]]

\* Every page set that a run is checked on.
AllPageSets == {EmptyPages, MixedPages, LongPages, DetailPages, SinglePages}

\* The price texts found on those pages.
PriceTexts ==
  UNION {{p[u][s][i].price.text :
            i \in {k \in 1..Len(p[u][s]) : p[u][s][k].price.found}} :
         <<p, u, s>> \in AllPageSets \X Sources \X Sources}

\* Lines 26, 55, 84: the price strategy of each extractor on each of these
\* texts.  The conversions are pure, each is worked out once.
Prices ==
  [s \in Sources |->
     [t \in PriceTexts |->
        IF s = YM THEN DigitsOnlyPrice(t) ELSE DecimalPrice(t)]]

\* Lines 26, 55, 84: the price extractor s reads from the text raw.
ParsePrice(s, raw) == Prices[s][raw]


\* ------------------------------------------------------------------- state

VARIABLES
  text,         \* update.message.text
  dom,          \* the pages the three search URLs serve during this run
  query,        \* search_products: query (line 103)
  hpc,          \* search_products: where the handler is
  replies,      \* the replies sent on update.message, in order
  pw,           \* the async_playwright() context of line 110
  browser,      \* the browser of line 111
  released,     \* how many times the browser's resources were released
  exc,          \* the exception leaving the handler, "none" when there is none
  pageUrl,      \* the URL active in the shared page of line 112
  epc,          \* per extractor: the await it is suspended at
  cardsAt,      \* per extractor: the URL that was active when cards was read
  idx,          \* per extractor: position of card in cards (from 1)
  cur,          \* per extractor: the fields of the current card read so far
  res,          \* per extractor: results
  warned,       \* per extractor: cards whose item warning was logged
  aborted,      \* per extractor: the step and fault logged by the outer excepts
  finished,     \* the extractors that have returned, in the order they did
  calls,        \* per extractor: the kinds of browser call it has made
  results,      \* search_products: results (line 119)
  all_results,  \* search_products: all_results (line 123)
  sent          \* search_products: items of all_results already presented

vars ==
  <<text, dom, query, hpc, replies, pw, browser, released, exc, pageUrl, epc,
    cardsAt, idx, cur, res, warned, aborted, finished, calls, results,
    all_results, sent>>

hvars == <<query, hpc, replies, pw, browser, released, exc, results,
           all_results, sent>>

evars ==
  <<pageUrl, epc, cardsAt, idx, cur, res, warned, aborted, finished, calls>>

NoPage == <<>>
Blank == <<"about:blank">>

NoItem == [title |-> <<>>, price |-> ValueError, url |-> <<>>, readAt |-> {}]

NotAborted == [step |-> "none", kind |-> "none"]

\* The steps of the per-card body, lines 24-28, in order.
FieldSteps == {"title", "price", "href", "image"}

\* An extractor that is started and has not returned.
Running == {"goto", "wait", "query"} \cup FieldSteps

\* The source whose search URL is u.
ServedBy(u) == CHOOSE s \in Sources : SearchUrl(s, query) = u

\* The elements extractor s holds in cards.
Cards(s) == dom[ServedBy(cardsAt[s])][s]

TypeOK ==
  /\ hpc \in {"start", "pw", "launch", "newpage", "tasks", "gathering",
              "close", "exit", "flatten", "present", "done", "raised"}
  /\ pw \in {"idle", "started", "stopped"}
  /\ browser \in {"none", "open", "closed"}
  /\ released \in 0..2
  /\ exc \in {"none", "LaunchError", "PageError", "CancelledError",
              "ExtractorError"}
  /\ \A s \in Sources :
       /\ epc[s] \in {"idle", "done", "raised", "cancelled"} \cup Running
       /\ idx[s] \in 0..(MaxItems + 1)
       /\ Len(res[s]) <= idx[s]

StartState ==
  /\ query = <<>>
  /\ hpc = "start"
  /\ replies = <<>>
  /\ pw = "idle"
  /\ browser = "none"
  /\ released = 0
  /\ exc = "none"
  /\ pageUrl = NoPage
  /\ epc = [s \in Sources |-> "idle"]
  /\ cardsAt = [s \in Sources |-> NoPage]
  /\ idx = [s \in Sources |-> 0]
  /\ cur = [s \in Sources |-> NoItem]
  /\ res = [s \in Sources |-> <<>>]
  /\ warned = [s \in Sources |-> {}]
  /\ aborted = [s \in Sources |-> NotAborted]
  /\ finished = <<>>
  /\ calls = [s \in Sources |-> {}]
  /\ results = <<>>
  /\ all_results = <<>>
  /\ sent = 0


\* ------------------------------------------------------------- the handler

Prompt == [kind |-> "prompt"]
Searching(q) == [kind |-> "searching", query |-> q]
NothingFoundReply == [kind |-> "nothing"]

Placeholder == <<"https://via.placeholder.com/300x200">>

\* Lines 130-143: the caption fields, the button URL and the photo.
Photo(item) ==
  [kind |-> "photo",
   title |-> item.title,
   marketplace |-> item.marketplace,
   price |-> item.price,
   url |-> item.url,
   photo |-> IF item.image = <<>> THEN Placeholder ELSE item.image]

Untrimmed(t) == t

\* Line 103: update.message.text.strip()
Trimmed(t) == Strip(t)

\* Line 104: the query is searched unless len(query) < 2.
ValidQuery(q) == ~(Len(q) < 2)

\* Lines 103-108: the validation prompt and return, or the acknowledgment.
Validate ==
  /\ hpc = "start"
  /\ query' = Trimmed(text)
  /\ \/ /\ ~ValidQuery(query')
        /\ replies' = Append(replies, Prompt)
        /\ hpc' = "done"
     \/ /\ ValidQuery(query')
        /\ replies' = Append(replies, Searching(query'))
        /\ hpc' = "pw"
  /\ UNCHANGED <<text, dom, pw, browser, released, exc, results, all_results,
                 sent>>
  /\ UNCHANGED evars

\* Line 110: entering async with async_playwright().
EnterPlaywright ==
  /\ hpc = "pw"
  /\ pw' = "started"
  /\ hpc' = "launch"
  /\ UNCHANGED <<text, dom, query, replies, browser, released, exc, results,
                 all_results, sent>>
  /\ UNCHANGED evars

\* Line 111: p.chromium.launch returns the browser or raises.
Launch ==
  /\ hpc = "launch"
  /\ \/ /\ browser' = "open"
        /\ hpc' = "newpage"
        /\ exc' = exc
     \/ /\ browser' = browser
        /\ hpc' = "exit"
        /\ exc' = "LaunchError"
  /\ UNCHANGED <<text, dom, query, replies, pw, released, results,
                 all_results, sent>>
  /\ UNCHANGED evars

\* Line 112: browser.new_page returns the page or raises.
NewPage ==
  /\ hpc = "newpage"
  /\ \/ /\ pageUrl' = Blank
        /\ hpc' = "tasks"
        /\ exc' = exc
     \/ /\ pageUrl' = pageUrl
        /\ hpc' = "exit"
        /\ exc' = "PageError"
  /\ UNCHANGED <<text, dom, query, replies, pw, browser, released, results,
                 all_results, sent>>
  /\ UNCHANGED <<epc, cardsAt, idx, cur, res, warned, aborted, finished,
                 calls>>

\* Lines 114-119: gather starts the three coroutines as tasks and suspends.
StartGather ==
  /\ hpc = "tasks"
  /\ epc' = [s \in Sources |-> "goto"]
  /\ hpc' = "gathering"
  /\ UNCHANGED <<text, dom, query, replies, pw, browser, released, exc,
                 results, all_results, sent>>
  /\ UNCHANGED <<pageUrl, cardsAt, idx, cur, res, warned, aborted, finished,
                 calls>>

GatheredAsCompleted(r, order) == [i \in 1..Len(order) |-> r[order[i]]]

\* Line 119: gather returns the results in the order of the tasks list; order
\* is the order in which the tasks returned.
Gathered(r, order) == [i \in 1..Len(SourceOrder) |-> r[SourceOrder[i]]]

GatherReadyOnFirst(e) == \E s \in Sources : e[s] \in {"done", "raised"}

\* Line 119: gather is ready to resume the handler when every task has
\* returned, or when a task has raised.
GatherReady(e) ==
  \/ \A s \in Sources : e[s] = "done"
  \/ \E s \in Sources : e[s] = "raised"

AfterGatherPresent == "flatten"

\* Lines 119-121: what follows the gather is browser.close().
AfterGather == "close"

\* Line 119: gather resumes the handler with the lists of the tasks, or with
\* the exception of a task that raised.
GatherDone ==
  /\ hpc = "gathering"
  /\ GatherReady(epc)
  /\ IF \E s \in Sources : epc[s] = "raised"
     THEN /\ exc' = "ExtractorError"
          /\ hpc' = "exit"
          /\ results' = results
     ELSE /\ exc' = exc
          /\ hpc' = AfterGather
          /\ results' = Gathered(res, finished)
  /\ UNCHANGED <<text, dom, query, replies, pw, browser, released,
                 all_results, sent>>
  /\ UNCHANGED evars

\* Line 119: the handler's task is cancelled while it waits in gather; gather
\* cancels the tasks still running, CancelledError is no Exception and passes
\* every except clause of the extractors.
Cancel ==
  /\ hpc = "gathering"
  /\ \E s \in Sources : epc[s] \in Running
  /\ epc' = [s \in Sources |->
               IF epc[s] \in Running THEN "cancelled" ELSE epc[s]]
  /\ exc' = "CancelledError"
  /\ hpc' = "exit"
  /\ UNCHANGED <<text, dom, query, replies, pw, browser, released, results,
                 all_results, sent>>
  /\ UNCHANGED <<pageUrl, cardsAt, idx, cur, res, warned, aborted, finished,
                 calls>>

\* Line 121: browser.close()
Close ==
  /\ hpc = "close"
  /\ browser' = "closed"
  /\ released' = released + 1
  /\ hpc' = "exit"
  /\ UNCHANGED <<text, dom, query, replies, pw, exc, results, all_results,
                 sent>>
  /\ UNCHANGED evars

BrowserLeftOpen(b) == b

\* The browser after the Playwright driver has stopped: a browser still open
\* goes down with the driver that launched it.
BrowserAfterStop(b) == IF b = "open" THEN "closed" ELSE b

\* Line 110: leaving the async with block, normally or with an exception,
\* stops the driver; an exception then leaves the handler.
ExitPlaywright ==
  /\ hpc = "exit"
  /\ pw' = "stopped"
  /\ browser' = BrowserAfterStop(browser)
  /\ released' = IF browser' # browser THEN released + 1 ELSE released
  /\ hpc' = IF exc = "none" THEN "flatten" ELSE "raised"
  /\ UNCHANGED <<text, dom, query, replies, exc, results, all_results, sent>>
  /\ UNCHANGED evars

RECURSIVE FlattenedFrom(_, _)
FlattenedFrom(rs, i) ==
  IF i > Len(rs) THEN <<>> ELSE rs[i] \o FlattenedFrom(rs, i + 1)

FlattenedFirstOnly(rs) == IF rs = <<>> THEN <<>> ELSE rs[1]

\* Line 123: [item for sublist in results for item in sublist]
Flattened(rs) == FlattenedFrom(rs, 1)

NeverNothingFound(all) == FALSE

\* Line 125: not all_results
NothingFound(all) == all = <<>>

\* Lines 123-127: flatten; the 'nothing found' reply and return when empty.
Flatten ==
  /\ hpc = "flatten"
  /\ all_results' = Flattened(results)
  /\ IF NothingFound(all_results')
     THEN /\ replies' = Append(replies, NothingFoundReply)
          /\ hpc' = "done"
     ELSE /\ replies' = replies
          /\ hpc' = IF all_results' = <<>> THEN "done" ELSE "present"
  /\ UNCHANGED <<text, dom, query, pw, browser, released, exc, results, sent>>
  /\ UNCHANGED evars

ItemToPresentFromEnd(all, n) == all[Len(all) - n]

\* Line 129: the item the for loop takes after n items, in list order.
ItemToPresent(all, n) == all[n + 1]

\* Lines 129-143: one reply_photo per item of all_results.
Present ==
  /\ hpc = "present"
  /\ sent' = sent + 1
  /\ replies' = Append(replies, Photo(ItemToPresent(all_results, sent)))
  /\ hpc' = IF sent + 1 = Len(all_results) THEN "done" ELSE "present"
  /\ UNCHANGED <<text, dom, query, pw, browser, released, exc, results,
                 all_results>>
  /\ UNCHANGED evars


\* ---------------------------------------------------------- the extractors

\* What a failing browser call raises: PlaywrightTimeoutError, or another
\* Exception.
FaultKinds == {"timeout", "error"}

CaughtTimeoutOnly(kind) == kind = "timeout"

\* Lines 38-41, 67-70, 96-99: except PlaywrightTimeoutError, except Exception.
Caught(kind) == kind \in {"timeout", "error"}

\* The extractor returns results (lines 42, 71, 100).
Return(s) ==
  /\ epc' = [epc EXCEPT ![s] = "done"]
  /\ finished' = Append(finished, s)

AfterFaultNextStep(step) ==
  CASE step = "goto" -> "wait" [] step = "wait" -> "query" [] OTHER -> "done"

AfterFaultRetry(step) == step

\* Lines 18-42: goto, wait_for_selector and query_selector_all stand in one
\* try block, so after a fault at any of them the extractor is at its return.
AfterFault(step) == "done"

\* A call of the outer try raises: the except clause that catches it logs and
\* falls through to the return; an exception none catches leaves the coroutine.
Fail(s, step, kind) ==
  IF Caught(kind)
  THEN /\ IF AfterFault(step) = "done"
          THEN Return(s)
          ELSE /\ epc' = [epc EXCEPT ![s] = AfterFault(step)]
               /\ UNCHANGED finished
       /\ aborted' = [aborted EXCEPT ![s] = [step |-> step, kind |-> kind]]
  ELSE /\ epc' = [epc EXCEPT ![s] = "raised"]
       /\ UNCHANGED <<finished, aborted>>

\* Lines 19, 48, 77: page.goto(url, timeout=15000) completes and makes url the
\* page's URL, or raises; a navigation that raises may have committed already.
Goto(s) ==
  /\ hpc = "gathering"
  /\ epc[s] = "goto"
  /\ \/ /\ pageUrl' = SearchUrl(s, query)
        /\ epc' = [epc EXCEPT ![s] = "wait"]
        /\ UNCHANGED <<finished, aborted>>
     \/ /\ \E kind \in FaultKinds : Fail(s, "goto", kind)
        /\ pageUrl' \in {pageUrl, SearchUrl(s, query)}
  /\ calls' = [calls EXCEPT ![s] = @ \cup {"goto"}]
  /\ UNCHANGED <<text, dom, cardsAt, idx, cur, res, warned>>
  /\ UNCHANGED hvars

\* The elements of the active page that the result selector of s matches.
Matching(s) ==
  IF pageUrl \in {NoPage, Blank} THEN <<>> ELSE dom[ServedBy(pageUrl)][s]

\* Lines 20, 49, 78: page.wait_for_selector(selector, timeout=10000) returns
\* when the active page has a matching element, or raises.
WaitForSelector(s) ==
  /\ hpc = "gathering"
  /\ epc[s] = "wait"
  /\ \/ /\ Matching(s) # <<>>
        /\ epc' = [epc EXCEPT ![s] = "query"]
        /\ UNCHANGED <<finished, aborted>>
     \/ \E kind \in FaultKinds : Fail(s, "wait", kind)
  /\ calls' = [calls EXCEPT ![s] = @ \cup {"wait"}]
  /\ UNCHANGED <<text, dom, pageUrl, cardsAt, idx, cur, res, warned>>
  /\ UNCHANGED hvars

\* Lines 21-22, 50-51, 79-80: page.query_selector_all(selector) returns the
\* matching elements of the active page, or raises; the loop starts at the
\* first of cards[:5], and the extractor returns when there is none.
QuerySelectorAll(s) ==
  /\ hpc = "gathering"
  /\ epc[s] = "query"
  /\ \/ /\ cardsAt' = [cardsAt EXCEPT ![s] = pageUrl]
        /\ IF LoopCount(Len(Matching(s))) = 0
           THEN /\ Return(s)
                /\ UNCHANGED <<idx, cur>>
           ELSE /\ epc' = [epc EXCEPT ![s] = "title"]
                /\ idx' = [idx EXCEPT ![s] = 1]
                /\ cur' = [cur EXCEPT ![s] = [NoItem EXCEPT !.readAt = {pageUrl}]]
                /\ UNCHANGED finished
        /\ UNCHANGED aborted
     \/ /\ \E kind \in FaultKinds : Fail(s, "query", kind)
        /\ UNCHANGED <<cardsAt, idx, cur>>
  /\ calls' = [calls EXCEPT ![s] = @ \cup {"query"}]
  /\ UNCHANGED <<text, dom, pageUrl, res, warned>>
  /\ UNCHANGED hvars

StepAfter(f) ==
  CASE f = "title" -> "price" [] f = "price" -> "href" [] f = "href" -> "image"

\* The loop goes on to card i + 1 of cards[:5], or ends.
NextItem(i, n) ==
  IF i < LoopCount(n)
  THEN [epc |-> "title", idx |-> i + 1]
  ELSE [epc |-> "done", idx |-> i]

OnItemErrorBreak(i, n) == [epc |-> "done", idx |-> i]

\* Lines 36-37, 65-66, 94-95: the except inside the loop body logs the warning
\* and the loop goes on.
OnItemError(i, n) == NextItem(i, n)

\* The loop moves to position nx: the next card, or the return after the loop.
Advance(s, nx) ==
  /\ idx' = [idx EXCEPT ![s] = nx.idx]
  /\ IF nx.epc = "done"
     THEN /\ Return(s)
          /\ cur' = [cur EXCEPT ![s] = NoItem]
     ELSE /\ epc' = [epc EXCEPT ![s] = nx.epc]
          /\ cur' = [cur EXCEPT ![s] = [NoItem EXCEPT !.readAt = {cardsAt[s]}]]
          /\ UNCHANGED finished

\* Lines 29-35, 58-64, 87-93: the listing appended for card i.
Listing(s, item, image, i) ==
  [title |-> Strip(item.title),
   marketplace |-> Marketplace(s),
   price |-> item.price,
   url |-> item.url,
   image |-> image,
   card |-> i,
   readAt |-> item.readAt]

\* Lines 24-35, 53-64, 82-93: one card.query_selector_eval of the loop body
\* with what follows it up to the next await.  The call returns the text its
\* selector finds in the card; it raises when the card has no such element,
\* and it may raise when the page has left the URL the card was read at.  The
\* price text is converted right after its call, the listing is appended
\* right after the image call.
Eval(s) ==
  /\ hpc = "gathering"
  /\ epc[s] \in FieldSteps
  /\ LET f == epc[s]
         i == idx[s]
         n == Len(Cards(s))
         raw == Cards(s)[i][f]
         price == IF f = "price" /\ raw.found
                  THEN ParsePrice(s, raw.text) ELSE ValueError
         seen == cur[s].readAt \cup {pageUrl}
     IN \/ /\ raw.found
           /\ f = "price" => price.ok
           /\ IF f = "image"
              THEN /\ res' = [res EXCEPT ![s] =
                                Append(@, Listing(s, [cur[s] EXCEPT !.readAt = seen],
                                                  raw.text, i))]
                   /\ Advance(s, NextItem(i, n))
              ELSE /\ cur' = [cur EXCEPT ![s] =
                                CASE f = "title" ->
                                       [@ EXCEPT !.title = raw.text, !.readAt = seen]
                                  [] f = "price" ->
                                       [@ EXCEPT !.price = price, !.readAt = seen]
                                  [] f = "href" ->
                                       [@ EXCEPT !.url = raw.text, !.readAt = seen]]
                   /\ epc' = [epc EXCEPT ![s] = StepAfter(f)]
                   /\ UNCHANGED <<idx, res, finished>>
           /\ UNCHANGED warned
        \/ /\ \/ ~raw.found
              \/ f = "price" /\ ~price.ok
              \/ pageUrl # cardsAt[s]
           /\ warned' = [warned EXCEPT ![s] = @ \cup {i}]
           /\ Advance(s, OnItemError(i, n))
           /\ UNCHANGED res
  /\ calls' = [calls EXCEPT ![s] = @ \cup {"eval"}]
  /\ UNCHANGED <<text, dom, pageUrl, cardsAt, aborted>>
  /\ UNCHANGED hvars

\* ----------------------------------------------------------- specification

Next ==
  \/ Validate
  \/ EnterPlaywright
  \/ Launch
  \/ NewPage
  \/ StartGather
  \/ \E s \in Sources : Goto(s)
  \/ \E s \in Sources : WaitForSelector(s)
  \/ \E s \in Sources : QuerySelectorAll(s)
  \/ \E s \in Sources : Eval(s)
  \/ GatherDone
  \/ Cancel
  \/ Close
  \/ ExitPlaywright
  \/ Flatten
  \/ Present


\* The message texts of the runs checked: empty, blank, one character with and
\* without padding, and a padded two-character query.
Texts ==
  {<<>>, <<" ">>, <<"a">>, <<" ", "a", " ">>, <<" ", "a", "b", " ">>}

Init ==
  /\ text \in Texts
  /\ dom \in PageSets
  /\ StartState

Spec == Init /\ [][Next]_vars


InitLong ==
  /\ text \in Texts
  /\ dom = LongPages
  /\ StartState

SpecLong == InitLong /\ [][Next]_vars


InitDetail ==
  /\ text \in Texts
  /\ dom = DetailPages
  /\ StartState

SpecDetail == InitDetail /\ [][Next]_vars


\* Message texts whose query holds a character that has a meaning in a URL or
\* lies outside ASCII ("eacute" is U+00E9), a plain query and a short one.
UrlTexts ==
  {<<"a", "&">>, <<"a", "%">>, <<"a", "eacute">>, <<"a", "b">>, <<"a">>}

InitUrl ==
  /\ text \in UrlTexts
  /\ dom = SinglePages
  /\ StartState

SpecUrl == InitUrl /\ [][Next]_vars


\* The steps of the handler's own task, the cancellation from outside apart.
HandlerStep ==
  \/ Validate
  \/ EnterPlaywright
  \/ Launch
  \/ NewPage
  \/ StartGather
  \/ GatherDone
  \/ Close
  \/ ExitPlaywright
  \/ Flatten
  \/ Present

\* The steps of the task of extractor s.
ExtractorStep(s) ==
  \/ Goto(s)
  \/ WaitForSelector(s)
  \/ QuerySelectorAll(s)
  \/ Eval(s)

InitFair ==
  /\ text \in {<<"a">>, <<"a", "b">>}
  /\ dom \in {EmptyPages, SinglePages}
  /\ StartState

\* The event loop resumes every task whose awaited operation has completed or
\* raised, and every operation does one of the two: each task that can take
\* a step takes one.  Nothing obliges the framework to cancel the handler.
SpecFair ==
  /\ InitFair
  /\ [][Next]_vars
  /\ WF_vars(HandlerStep)
  /\ \A s \in Sources : WF_vars(ExtractorStep(s))


\* ------------------------------------------------------------- properties

\* The handler has left the async with block normally and built all_results.
AggregateBuilt == hpc \in {"present", "done"} /\ pw = "stopped"

\* The handler has returned or raised.
HandlerEnded == hpc \in {"done", "raised"}

\* Every extractor has returned its list to gather.
AllReturned == \A s \in Sources : epc[s] = "done"

ListingsOf(s) == {res[s][i] : i \in 1..Len(res[s])}

PhotosSent == SelectSeq(replies, LAMBDA r : r.kind = "photo")

\* price < 0 in Python: -0.0 is not negative.
IsNegative(p) == p.neg /\ p.mant > 0

\* The marketplaces a listing may name.
Marketplaces == {"Wildberries", "Ozon", "Yandex.Market"}

\* C1: every listing an extractor holds was read, by query_selector_all and by
\* each query_selector_eval, while the page's URL was that extractor's own
\* search URL.
C1_NoCrossContamination ==
  \A s \in Sources : \A l \in ListingsOf(s) :
    l.readAt = {SearchUrl(s, query)}

WaitTimedOut(s) == aborted[s] = [step |-> "wait", kind |-> "timeout"]

OnlyWaitTimeout(s) ==
  /\ WaitTimedOut(s)
  /\ \A t \in Sources \ {s} : ~WaitTimedOut(t)

\* C2: when all three extractors have returned and exactly one of them timed
\* out in wait_for_selector, the aggregate holds the listings of the other two
\* as they returned them and none of the timed-out source, and the handler
\* ends by returning after sending one product message per listing.
C2_TimeoutKeepsOthers ==
  \A s \in Sources :
    AllReturned /\ OnlyWaitTimeout(s) =>
      /\ res[s] = <<>>
      /\ AggregateBuilt =>
           /\ \A t \in Sources :
                SelectSeq(all_results,
                          LAMBDA l : l.marketplace = Marketplace(t)) = res[t]
           /\ Len(all_results) = Len(res[WB]) + Len(res[OZ]) + Len(res[YM])
      /\ HandlerEnded =>
           /\ hpc = "done"
           /\ \A t \in Sources :
                SelectSeq(PhotosSent,
                          LAMBDA r : r.marketplace = Marketplace(t))
                  = [i \in 1..Len(res[t]) |-> Photo(res[t][i])]

\* C2 witness: Ozon timed out waiting, Wildberries returned two listings, and
\* the handler has returned.
C2_Witness ==
  /\ hpc = "done"
  /\ AllReturned
  /\ OnlyWaitTimeout(OZ)
  /\ Len(res[WB]) = 2
  /\ Len(PhotosSent) >= 2

\* C3: once a text whose trimmed length is below 2 has been validated, the
\* only reply is the validation prompt, the handler has returned, and nothing
\* of the browser was touched: no driver, no browser, no page, no extractor
\* started, no URL visited.
C3_ShortQueryRejected ==
  hpc # "start" /\ Len(Strip(text)) < 2 =>
    /\ hpc = "done"
    /\ replies = <<Prompt>>
    /\ NothingFoundReply # Prompt
    /\ exc = "none"
    /\ pw = "idle"
    /\ browser = "none"
    /\ pageUrl = NoPage
    /\ \A s \in Sources : epc[s] = "idle"
    /\ finished = <<>>

\* C3 witness: a one-character query inside padding was rejected.
C3_Witness ==
  /\ text = <<" ", "a", " ">>
  /\ hpc = "done"
  /\ replies = <<Prompt>>

\* C4: the browser is never released twice, and whenever the handler is past
\* the async with block with a browser launched (on the normal path, after a
\* failed new_page, after a cancelled gather) it was released exactly once.
C4_ReleasedExactlyOnce ==
  /\ released <= 1
  /\ browser = "closed" <=> released = 1
  /\ browser # "none" /\ hpc \in {"flatten", "present", "done", "raised"} =>
       /\ released = 1
       /\ pw = "stopped"

\* C4 witness: new_page failed after the launch, the handler raised, and the
\* browser is released.
C4_Witness ==
  /\ hpc = "raised"
  /\ exc = "PageError"
  /\ released = 1

Rank(m) == CHOOSE i \in 1..Len(SourceOrder) : Marketplace(SourceOrder[i]) = m

\* C5: in the aggregate, a listing of an earlier source of the task list never
\* follows one of a later source, and two listings of one source stand in the
\* order of the cards they were read from, whatever order the extractors
\* returned in.
C5_SourceMajorOrder ==
  AggregateBuilt =>
    \A i, j \in 1..Len(all_results) :
      i < j =>
        LET a == all_results[i]
            b == all_results[j]
        IN /\ Rank(a.marketplace) <= Rank(b.marketplace)
           /\ a.marketplace = b.marketplace => a.card < b.card

\* C5 witness: Yandex.Market returned first and Wildberries last, and the
\* aggregate holds two Wildberries listings and one of another source.
C5_Witness ==
  /\ AggregateBuilt
  /\ finished = <<YM, OZ, WB>>
  /\ Len(res[WB]) = 2
  /\ Len(all_results) >= 3

\* C6: every listing of the aggregate has a non-empty title, a non-empty url,
\* a price that is not negative and a recognised marketplace.
C6_ListingsWellFormed ==
  AggregateBuilt =>
    \A i \in 1..Len(all_results) :
      LET l == all_results[i]
      IN /\ l.title # <<>>
         /\ l.url # <<>>
         /\ ~IsNegative(l.price)
         /\ l.marketplace \in Marketplaces

NumSources == Cardinality(Sources)

\* C7: no extractor ever holds more than 5 listings, and the aggregate never
\* more than 5 times the number of sources.
C7_AtMostFivePerSource ==
  /\ \A s \in Sources : Len(res[s]) <= 5
  /\ Len(all_results) <= 5 * NumSources
  /\ \A i \in 1..Len(results) : Len(results[i]) <= 5

\* C7 witness: Wildberries read a page with more than 5 cards and returned 5
\* listings, which the handler has flattened.
C7_Witness ==
  /\ AggregateBuilt
  /\ cardsAt[WB] # NoPage
  /\ Len(Cards(WB)) > 5
  /\ Len(res[WB]) = 5
  /\ Len(all_results) = 5

HasListing(s, i) == \E l \in ListingsOf(s) : l.card = i

\* Every query_selector_eval of the loop body finds its element in card c and
\* extractor s can convert the price text.
Extractable(s, c) ==
  /\ c.title.found
  /\ c.price.found
  /\ c.href.found
  /\ c.image.found
  /\ ParsePrice(s, c.price.text).ok

\* C8: an extractor that returns from its loop has, for every one of the first
\* 5 cards, either logged the item warning (its extraction failed) or kept its
\* listing, never both: a failed card costs no other card its place.  When the
\* page stayed where the cards were read, the cards kept are exactly those of
\* the first 5 whose four fields are there with a price that converts.
C8_BadItemOnlyDropsItself ==
  \A s \in Sources :
    epc[s] = "done" /\ cardsAt[s] # NoPage =>
      /\ aborted[s] = NotAborted
      /\ \A i \in 1..Len(Cards(s)) :
           i <= 5 =>
             /\ i \in warned[s] <=> ~HasListing(s, i)
             /\ HasListing(s, i) => Extractable(s, Cards(s)[i])
             /\ pageUrl = cardsAt[s] /\ Extractable(s, Cards(s)[i])
                  => HasListing(s, i)

\* C8 witness: of three cards the middle one failed and the two around it
\* are in the result.
C8_Witness ==
  /\ epc[WB] = "done"
  /\ warned[WB] = {2}
  /\ pageUrl = cardsAt[WB]
  /\ ~Extractable(WB, Cards(WB)[2])
  /\ HasListing(WB, 1)
  /\ HasListing(WB, 3)

\* C9: no extractor ever ends by raising, the handler never carries an
\* extractor's exception, and when gather resumes the handler it hands over
\* one list per source.
C9_ExtractorsNeverRaise ==
  /\ \A s \in Sources : epc[s] # "raised"
  /\ exc # "ExtractorError"
  /\ \A s \in Sources :
       aborted[s] # NotAborted => epc[s] = "done" /\ res[s] = <<>>
  /\ hpc = "close" => /\ Len(results) = NumSources
                      /\ \A i \in 1..NumSources : results[i] = res[SourceOrder[i]]

\* C9 witness: gather has returned although navigation raised in one
\* extractor, the element query raised in another and an item failed in the
\* third.
C9_Witness ==
  /\ hpc = "close"
  /\ aborted[OZ] = [step |-> "goto", kind |-> "error"]
  /\ aborted[YM] = [step |-> "query", kind |-> "error"]
  /\ warned[WB] # {}

AllEmpty == \A s \in Sources : res[s] = <<>>

\* C10: when all three extractors have returned empty lists the handler does
\* not raise, and when it has ended it has returned after exactly the
\* acknowledgment and one 'nothing found' reply, with no product message.
C10_NothingFound ==
  AllReturned /\ AllEmpty =>
    /\ exc = "none"
    /\ hpc # "raised"
    /\ hpc # "present"
    /\ PhotosSent = <<>>
    /\ hpc = "done" => replies = <<Searching(query), NothingFoundReply>>

\* C10 witness: no result element appeared for any source and the handler
\* returned after the 'nothing found' reply.
C10_Witness ==
  /\ hpc = "done"
  /\ dom = EmptyPages
  /\ \A s \in Sources : WaitTimedOut(s)
  /\ replies = <<Searching(query), NothingFoundReply>>

\* The product messages of the aggregate, one per listing, in list order.
PhotosOf(all) == [i \in 1..Len(all) |-> Photo(all[i])]

\* The three reply sequences of a run.
PromptAlone == replies = <<Prompt>>
NothingFoundAlone == replies = <<Searching(query), NothingFoundReply>>
OnePhotoPerListing ==
  /\ all_results # <<>>
  /\ replies = <<Searching(query)>> \o PhotosOf(all_results)

ExactlyOneSequence ==
  \/ PromptAlone /\ ~NothingFoundAlone /\ ~OnePhotoPerListing
  \/ ~PromptAlone /\ NothingFoundAlone /\ ~OnePhotoPerListing
  \/ ~PromptAlone /\ ~NothingFoundAlone /\ OnePhotoPerListing

\* C11 as stated: every run that has ended, by returning or by raising, has
\* produced exactly one of the three reply sequences.
C11_OneOfThreeSequences == HandlerEnded => ExactlyOneSequence

\* C11 amended: a run that has returned has produced exactly one of the three
\* reply sequences (the prompt alone exactly for a short query, 'nothing
\* found' exactly for an empty aggregate, else one product message per listing
\* in aggregate order); a run that has raised has sent the acknowledgment
\* alone.
C11_ReturnedOneOfThree ==
  /\ hpc = "done" =>
       /\ ExactlyOneSequence
       /\ PromptAlone <=> ~ValidQuery(Strip(text))
       /\ NothingFoundAlone <=> ValidQuery(Strip(text)) /\ all_results = <<>>
  /\ hpc = "raised" => replies = <<Searching(query)>>

\* C11 witness: the run returned after the acknowledgment and three product
\* messages from two sources.
C11_Witness ==
  /\ hpc = "done"
  /\ Len(all_results) = 3
  /\ OnePhotoPerListing
  /\ res[OZ] # <<>>

\* 1234.56 and 12990.0
DecimalExpected == [ok |-> TRUE, neg |-> FALSE, mant |-> 123456, exp |-> 2]
DigitsOnlyExpected == [ok |-> TRUE, neg |-> FALSE, mant |-> 12990, exp |-> 0]

SamplePrice(s) == IF s = YM THEN DigitsOnlySample ELSE DecimalSample
ExpectedPrice(s) == IF s = YM THEN DigitsOnlyExpected ELSE DecimalExpected

\* Extractor s is past card i of the cards it holds.
Visited(s, i) ==
  /\ cardsAt[s] # NoPage
  /\ i \in 1..LoopCount(Len(Cards(s)))
  /\ epc[s] = "done" \/ i < idx[s]

\* The page has stayed at the URL where extractor s read its cards.
PageStable(s) == pageUrl = cardsAt[s]

\* C12: a card whose price text is the well-formed sample of its extractor's
\* strategy ("1 234,56 U+20BD" for Wildberries and Ozon, "12 990 U+20BD" for
\* Yandex.Market), whose other fields are there and whose page stayed in
\* place, is kept with the price 1234.56 resp. 12990.
C12_PriceNormalization ==
  \A s \in Sources : \A i \in 1..MaxItems :
    /\ Visited(s, i)
    /\ PageStable(s)
    /\ Cards(s)[i].title.found /\ Cards(s)[i].href.found
    /\ Cards(s)[i].image.found
    /\ Cards(s)[i].price = Found(SamplePrice(s))
    => \E l \in ListingsOf(s) : l.card = i /\ l.price = ExpectedPrice(s)

\* The digits-only half of C12 on the same runs: the Yandex.Market card with
\* "12 990 U+20BD" is kept with price 12990.
C12_DigitsOnlyHolds ==
  \A i \in 1..MaxItems :
    /\ Visited(YM, i)
    /\ PageStable(YM)
    /\ Cards(YM)[i].price = Found(DigitsOnlySample)
    => \E l \in ListingsOf(YM) : l.card = i /\ l.price = DigitsOnlyExpected

\* C13: an extractor whose goto raised has made no other browser call, one
\* whose wait_for_selector raised has made no call but goto and that wait, and
\* either has returned with the empty list.
C13_AbortAtFirstFailure ==
  \A s \in Sources :
    /\ aborted[s].step = "goto" =>
         /\ calls[s] = {"goto"}
         /\ epc[s] = "done"
         /\ res[s] = <<>>
    /\ aborted[s].step = "wait" =>
         /\ calls[s] = {"goto", "wait"}
         /\ epc[s] = "done"
         /\ res[s] = <<>>
    /\ aborted[s] # NotAborted /\ hpc \in {"close", "flatten"} =>
         \A i \in 1..Len(SourceOrder) : SourceOrder[i] = s => results[i] = <<>>

\* C13 witness: Wildberries failed in goto after the navigation had reached
\* its page, Ozon timed out in wait_for_selector, and gather has returned.
C13_Witness ==
  /\ hpc = "close"
  /\ aborted[WB] = [step |-> "goto", kind |-> "error"]
  /\ aborted[OZ] = [step |-> "wait", kind |-> "timeout"]
  /\ pageUrl = SearchUrl(WB, query)
  /\ dom = MixedPages

\* The handler is past the gather on the path without exception.
PastGather ==
  \/ hpc = "close"
  \/ hpc \in {"exit", "flatten", "present"} /\ exc = "none"
  \/ hpc = "done" /\ pw = "stopped"

\* C14: the handler is past the gather (at browser.close(), building or
\* presenting the aggregate) only when all three extractors have returned; as
\* long as an extractor is running the handler stays suspended in gather with
\* the browser open; once the browser is closed no extractor is at a page
\* operation.
C14_JoinIsBarrier ==
  /\ PastGather => AllReturned /\ Len(finished) = NumSources
  /\ all_results # <<>> \/ results # <<>> => AllReturned
  /\ (\E s \in Sources : epc[s] \in Running) =>
       /\ hpc = "gathering"
       /\ browser = "open"
  /\ browser = "closed" => \A s \in Sources : epc[s] \notin Running

\* C14 witness: Ozon failed at its first step and returned first, Wildberries
\* went on to return two listings, and only then did gather return.
C14_Witness ==
  /\ hpc = "close"
  /\ finished[1] = OZ
  /\ aborted[OZ].step = "goto"
  /\ finished[NumSources] = WB
  /\ Len(res[WB]) = 2

\* Card c has a title, a price that extractor s converts and a link, and no
\* img element.
OnlyImageMissing(s, c) ==
  /\ c.title.found
  /\ c.price.found
  /\ c.href.found
  /\ ~c.image.found
  /\ ParsePrice(s, c.price.text).ok

\* C15: a card whose title, price and link extract and which has no image is
\* kept as a listing with an empty image when its page stayed in place, and
\* the product message of a listing with an empty image carries the
\* placeholder.
C15_MissingImageKept ==
  /\ \A s \in Sources : \A i \in 1..MaxItems :
       Visited(s, i) /\ PageStable(s) /\ OnlyImageMissing(s, Cards(s)[i])
         => \E l \in ListingsOf(s) : l.card = i /\ l.image = <<>>
  /\ \A i \in 1..Len(all_results) :
       all_results[i].image = <<>> /\ i <= sent
         => PhotosSent[i].photo = Placeholder

\* The half of C15 that the code keeps: a card whose img element has an empty
\* src is kept with an empty image and presented with the placeholder.
C15_EmptySrcKept ==
  /\ \A s \in Sources : \A i \in 1..MaxItems :
       /\ Visited(s, i)
       /\ PageStable(s)
       /\ Extractable(s, Cards(s)[i])
       /\ Cards(s)[i].image.text = <<>>
       => \E l \in ListingsOf(s) : l.card = i /\ l.image = <<>>
  /\ \A i \in 1..Len(all_results) :
       all_results[i].image = <<>> /\ i <= sent
         => PhotosSent[i].photo = Placeholder

HasDigit(t) == \E k \in 1..Len(t) : t[k] \in Digits

\* The price text of card c holds no number for extractor s: nothing is left
\* of it after the cleaning of the decimal strategy, or it has no digit.
NoNumber(s, c) ==
  /\ c.price.found
  /\ IF s = YM
     THEN ~HasDigit(c.price.text)
     ELSE Strip(SelectSeq(c.price.text, LAMBDA ch : ch # " ")) = <<>>

\* C16: every listing an extractor holds comes from a card whose price text
\* has a digit, and carries the number its strategy reads there; a card whose
\* price text holds no number has, once the loop is past it, the item warning
\* and no listing, so no listing has a price 0 that its card does not state.
C16_UnparsablePriceDiscarded ==
  \A s \in Sources :
    /\ \A l \in ListingsOf(s) :
         LET raw == Cards(s)[l.card].price
         IN /\ raw.found
            /\ HasDigit(raw.text)
            /\ l.price.ok
            /\ l.price = ParsePrice(s, raw.text)
    /\ \A i \in 1..MaxItems :
         Visited(s, i) /\ NoNumber(s, Cards(s)[i]) =>
           /\ i \in warned[s]
           /\ ~HasListing(s, i)

\* C16 witness: Ozon met a blank price text and Yandex.Market one without
\* digits; both dropped the card and kept the other one.
C16_Witness ==
  /\ AllReturned
  /\ dom = DetailPages
  /\ cardsAt[OZ] = SearchUrl(OZ, query)
  /\ cardsAt[YM] = SearchUrl(YM, query)
  /\ PageStable(YM)
  /\ NoNumber(OZ, Cards(OZ)[1]) /\ 1 \in warned[OZ] /\ HasListing(OZ, 2)
  /\ NoNumber(YM, Cards(YM)[2]) /\ 2 \in warned[YM] /\ HasListing(YM, 1)

\* Percent-encoding of one character for a query component: unreserved
\* characters stand for themselves, the others become the %XX of their UTF-8
\* bytes.
EncodedChar(c) ==
  CASE c = "&" -> <<"%", "2", "6">>
    [] c = "%" -> <<"%", "2", "5">>
    [] c = " " -> <<"%", "2", "0">>
    [] c = "eacute" -> <<"%", "C", "3", "%", "A", "9">>
    [] OTHER -> <<c>>

RECURSIVE PercentEncoded(_)
PercentEncoded(q) ==
  IF q = <<>> THEN <<>> ELSE EncodedChar(Head(q)) \o PercentEncoded(Tail(q))

\* C17: whatever URL a goto has made the page's URL is the search URL of one
\* of the sources with the percent-encoded query in it.
C17_QueryPercentEncoded ==
  pageUrl \notin {NoPage, Blank} =>
    \E s \in Sources : pageUrl = SearchUrl(s, PercentEncoded(query))

\* What the code does instead: the URL holds the query text as it is.
C17_QueryEmbeddedRaw ==
  pageUrl \notin {NoPage, Blank} =>
    \E s \in Sources : pageUrl = SearchUrl(s, query)

\* A product message or the 'nothing found' message.
IsResultReply(r) == r.kind \in {"photo", "nothing"}

\* C18: from the entry into async_playwright() on, the acknowledgment is the
\* first reply; from there until the driver has stopped (launch, new_page, the
\* extractors running under gather, close) it is the only one; a result reply
\* has been sent only when the browser is closed.
C18_RepliesAroundBrowser ==
  /\ pw # "idle" \/ browser # "none" =>
       /\ replies # <<>>
       /\ replies[1] = Searching(query)
  /\ hpc \in {"launch", "newpage", "tasks", "gathering", "close", "exit"} =>
       replies = <<Searching(query)>>
  /\ (\E s \in Sources : epc[s] \in Running) => replies = <<Searching(query)>>
  /\ (\E i \in 1..Len(replies) : IsResultReply(replies[i])) =>
       /\ browser = "closed"
       /\ pw = "stopped"

\* C18 witness: the first product message of several is out, the browser is
\* closed and the driver stopped.
C18_Witness ==
  /\ hpc = "present"
  /\ sent = 1
  /\ Len(replies) = 2
  /\ replies[1].kind = "searching"
  /\ replies[2].kind = "photo"
  /\ browser = "closed"

\* The last reply is the 'nothing found' message or the product message of
\* the last listing of the aggregate.
FinalOutcome ==
  /\ replies # <<>>
  /\ \/ replies[Len(replies)] = NothingFoundReply
     \/ /\ all_results # <<>>
        /\ sent = Len(all_results)
        /\ replies[Len(replies)] = Photo(all_results[Len(all_results)])

\* C19 as stated, in the form of its end state: a run with a valid query that
\* has ended has closed the browser and reached a final outcome.
C19_EndsWithFinalOutcome ==
  HandlerEnded /\ ValidQuery(Strip(text)) =>
    /\ browser = "closed"
    /\ FinalOutcome

\* C19 amended: every run ends, by returning or by raising; no run that has
\* ended leaves a browser open; a run with a valid query that returns has
\* closed the browser and reached a final outcome, and one that raises did so
\* at launch, at new_page or by cancellation in gather; the handler does not
\* stay in gather once the three extractors have returned, and each extractor
\* returns however the others fare.
C19_Terminates ==
  /\ <>HandlerEnded
  /\ [](HandlerEnded => browser # "open")
  /\ [](hpc = "done" /\ ValidQuery(Strip(text)) =>
          browser = "closed" /\ FinalOutcome)
  /\ [](hpc = "raised" =>
          exc \in {"LaunchError", "PageError", "CancelledError"})
  /\ \A s \in Sources : (epc[s] \in Running) ~> (epc[s] \notin Running)

\* C19 witness: a run with a valid query in which two extractors timed out has
\* returned after its last product message, the browser closed.
C19_Witness ==
  /\ hpc = "done"
  /\ ValidQuery(query)
  /\ browser = "closed"
  /\ FinalOutcome
  /\ PhotosSent # <<>>
  /\ WaitTimedOut(OZ)
  /\ WaitTimedOut(YM)

====
